---- MODULE Spec2Model ----
(***************************************************************************)
(* SEIHRD microsimulation (src/SEIHRD-microsimulation.py): the population  *)
(* generator, the contact graph builder and the day loop of simulate, and  *)
(* the count_stock calls of the script on the returned grid.               *)
(*                                                                         *)
(* Persons, days and grid rows are numbered from 0 as in the source.       *)
(* Probabilities are exact rationals in units of 1/Denom; a weighted draw  *)
(* rd.choices(population, weights) can return exactly the elements whose   *)
(* weight is positive.  Floating-point rounding of a finite sum of         *)
(* external frequencies is not modelled.                                   *)
(***************************************************************************)
EXTENDS Integers, Sequences, FiniteSets, TLC

\* ------------------------------------------------------------ Status
SUSCEPTIBLE == 0
EXPOSED == 1
INFECTED == 2
HOSPITALISED == 3
RECOVERED == 4
DEAD == 5

Status == {SUSCEPTIBLE, EXPOSED, INFECTED, HOSPITALISED, RECOVERED, DEAD}

\* ------------------------------------------------- model parameters
EI_time == 4
min_IR_time == 7
min_HR_time == 14
min_HD_time == 5

\* Probabilities are numerators over Denom (the least common denominator
\* of 1/2, 1/7, 1/21, 1/35, 1/200 and 0.16/35).
Denom == 8 * 3 * 125 * 7
EI_prob == Denom \div 2
ES_prob == Denom - EI_prob
HR == Denom \div 35
IR == Denom \div 21
IH == Denom \div 200
base_HD == (HR * 16) \div 100

\* ------------------------------------------------------------ bounds
\* persons, max_n_contacts, max_freq, external edges drawn in one run, and the
\* size of a run: n_days * n_persons * (1 + max_n_contacts * max_freq *
\* (n_persons - 1)), the last factor being the candidate partners of a person
MaxPersons == 3
MaxContacts == 2
MaxFreq == 2
MaxEdges == 2
MaxWork == 27
MaxFamilies == 2     \* families of one size in the population runs

\* The module-level threshold is 2000 for the 3.8 million persons of
\* FAMILIES ("downscaled to the simulated population size"); the model keeps
\* it as module state and also runs it downscaled to the model's population.
OverloadChoices == {1, 2000}

VARIABLES
    pc,                  \* position in simulate and the script
    NHS_OVERLOAD,        \* module-level hospital capacity
    n_days, families, n_init_exposed, max_n_contacts, max_freq,  \* arguments
    n_persons,
    state,               \* the grid: state[day][person]
    sh,                  \* rd.shuffle's loop index
    persons_familyID,
    persons_contacts,
    p, n_contacts, c, contacts_set,    \* locals of assign_external_contacts
    day, i, HD,                        \* locals of the day loop
    exposure_probability,              \* -1 while unbound
    weights,                           \* weights of the latest rd.choices call
    rows_read,           \* rows of the grid the latest person step read
    trajectory_log,      \* rows written by np.savetxt
    stock                \* the six count_stock results of the script

vars == <<pc, NHS_OVERLOAD, n_days, families, n_init_exposed, max_n_contacts,
          max_freq, n_persons, state, sh, persons_familyID, persons_contacts,
          p, n_contacts, c, contacts_set, day, i, HD, exposure_probability,
          weights, rows_read, trajectory_log, stock>>

args == <<NHS_OVERLOAD, n_days, families, n_init_exposed, max_n_contacts, max_freq>>

\* ------------------------------------------------------ count_persons
RECURSIVE SumFamilies_zero_based(_, _)
\* mutant of SumFamilies: i*n in the place of (i+1)*n
SumFamilies_zero_based(fams, k) ==
    IF k > Len(fams) THEN 0
    ELSE (k - 1) * fams[k] + SumFamilies_zero_based(fams, k + 1)

RECURSIVE SumFamilies(_, _)
SumFamilies(fams, k) ==
    IF k > Len(fams) THEN 0 ELSE k * fams[k] + SumFamilies(fams, k + 1)

\* sum([(i+1)*n for i,n in enumerate(families)]); fams[k] is families[k-1]
count_persons(fams) == SumFamilies(fams, 1)

\* ------------------------------------- assign_family_ID_and_members
np_inf == [inf |-> TRUE, w |-> 0]

\* rd.randint(1,max_freq)/7 for the drawn weekly count k
weekly(k) == [inf |-> FALSE, w |-> k]

\* mutant of family_contacts: a finite daily frequency of 1/7 for family members
family_contacts_finite(personID, family_size) ==
    [k \in 1..family_size |-> <<personID + k - 1, weekly(1)>>]

\* [(p,np.inf) for p in range(personID,personID+family_size)]
family_contacts(personID, family_size) ==
    [k \in 1..family_size |-> <<personID + k - 1, np_inf>>]

\* mutant of family_contacts_of: the person is not removed from the list
family_contacts_of_all(q, personID, family_size) ==
    family_contacts(personID, family_size)

\* [c for c in family_contacts if c[0]!=p]
family_contacts_of(q, personID, family_size) ==
    SelectSeq(family_contacts(personID, family_size), LAMBDA e : e[1] /= q)

RECURSIVE FamilyLoop(_, _, _, _, _, _)
\* The two nested loops: size index k (family_size = k), n-th family of that
\* size, the running personID and familyID, and the two lists built so far.
FamilyLoop(fams, k, n, personID, familyID, acc) ==
    IF k > Len(fams) THEN acc
    ELSE IF n >= fams[k] THEN FamilyLoop(fams, k + 1, 0, personID, familyID, acc)
    ELSE LET members == personID .. (personID + k - 1)
             next == [persons_familyID |->
                          [q \in DOMAIN acc.persons_familyID |->
                              IF q \in members THEN familyID
                              ELSE acc.persons_familyID[q]],
                      persons_contacts |->
                          [q \in DOMAIN acc.persons_contacts |->
                              IF q \in members
                              THEN family_contacts_of(q, personID, k)
                              ELSE acc.persons_contacts[q]]]
         IN FamilyLoop(fams, k, n + 1, personID + k, familyID + 1, next)

assign_family_ID_and_members(fams) ==
    LET n == count_persons(fams)
    IN FamilyLoop(fams, 1, 0, 0, 0,
                  [persons_familyID |-> [q \in 0..(n - 1) |-> 0],
                   persons_contacts |-> [q \in 0..(n - 1) |-> <<>>]])

\* ------------------------------------------------------------ helpers
\* np.zeros((n_days, n_persons), dtype=int)
np_zeros(rows, cols) == [d \in 0..(rows - 1) |-> [q \in 0..(cols - 1) |-> 0]]

\* row[0:stop] = value, for stop >= 0: a slice stops at the end of the row
slice_assign(row, stop, value) ==
    [q \in DOMAIN row |-> IF q < stop THEN value ELSE row[q]]

\* mutant of swap: x[i] = x[j] alone, the second assignment lost
swap_alias(x, a, b) == [x EXCEPT ![a] = x[b]]

\* x[i], x[j] = x[j], x[i]
swap(x, a, b) == [x EXCEPT ![a] = x[b], ![b] = x[a]]

\* numpy's index on axis 0: a negative index counts from the end
row_index(idx) == IF idx < 0 THEN idx + n_days ELSE idx

in_bounds(idx) == row_index(idx) >= 0 /\ row_index(idx) < n_days

\* sum(state[d]==status)
count_status(row, status) == Cardinality({q \in DOMAIN row : row[q] = status})

RECURSIVE sum_freq(_)
\* sum(exposure_frequencies): infinite as soon as one term is np.inf
sum_freq(fs) ==
    IF fs = <<>> THEN [inf |-> FALSE, w |-> 0]
    ELSE LET rest == sum_freq(Tail(fs))
         IN [inf |-> Head(fs).inf \/ rest.inf, w |-> Head(fs).w + rest.w]

\* min(1, total) in units of 1/Denom
min_one(total) ==
    IF total.inf \/ total.w * (Denom \div 7) >= Denom THEN Denom
    ELSE total.w * (Denom \div 7)

\* mutant of exposure_frequencies: the frequencies of all the contacts
exposure_frequencies_all(row, contacts) ==
    [k \in 1..Len(contacts) |-> contacts[k][2]]

\* [freq for c,freq in persons_contacts[i] if state[day-1,c]==Status.INFECTED]
exposure_frequencies(row, contacts) ==
    LET hit == SelectSeq(contacts, LAMBDA e : row[e[1]] = INFECTED)
    IN [k \in 1..Len(hit) |-> hit[k][2]]

\* rd.choices(population, weights)[0]: the elements of positive weight
choices(population, ws) ==
    {population[k] : k \in {m \in 1..Len(population) : ws[m] > 0}}

\* ---------------------------------------------------------------- Init
FamilyLists ==
    {f \in UNION {[1..len -> 0..MaxPersons] : len \in 1..MaxPersons} :
        /\ f[Len(f)] > 0
        /\ count_persons(f) <= MaxPersons}

Init ==
    /\ pc = "alloc"
    /\ NHS_OVERLOAD \in OverloadChoices
    /\ families \in FamilyLists
    /\ n_days \in 1..MaxWork
    /\ max_n_contacts \in 0..MaxContacts
    /\ max_freq \in 1..MaxFreq
    /\ n_days * count_persons(families)
          * (1 + max_n_contacts * max_freq * (count_persons(families) - 1)) <= MaxWork
    /\ n_init_exposed \in 0..(count_persons(families) + 1)
    /\ n_persons = 0
    /\ state = <<>>
    /\ sh = 0
    /\ persons_familyID = <<>>
    /\ persons_contacts = <<>>
    /\ p = 0 /\ n_contacts = 0 /\ c = 0 /\ contacts_set = {}
    /\ day = 0 /\ i = 0 /\ HD = 0
    /\ exposure_probability = -1
    /\ weights = <<>>
    /\ rows_read = {}
    /\ trajectory_log = <<>>
    /\ stock = <<>>

\* ------------------------------------------------- simulate, lines 68-85
\* n_persons, the zero grid and the slice assignment of row 0
AllocAndExpose ==
    /\ pc = "alloc"
    /\ n_persons' = count_persons(families)
    /\ LET grid == np_zeros(n_days, count_persons(families))
       IN state' = [grid EXCEPT ![0] = slice_assign(grid[0], n_init_exposed, EXPOSED)]
    /\ sh' = count_persons(families) - 1
    /\ pc' = "shuffle"
    /\ UNCHANGED <<stock, args, persons_familyID, persons_contacts, p, n_contacts, c,
                   contacts_set, day, i, HD, exposure_probability, weights,
                   rows_read, trajectory_log>>

\* rd.shuffle(state[0,:]): for i in reversed(range(1, len(x))), j drawn in 0..i
ShuffleStep ==
    /\ pc = "shuffle"
    /\ sh >= 1
    /\ \E j \in 0..sh : state' = [state EXCEPT ![0] = swap(state[0], sh, j)]
    /\ sh' = sh - 1
    /\ UNCHANGED <<stock, pc, args, n_persons, persons_familyID, persons_contacts, p,
                   n_contacts, c, contacts_set, day, i, HD, exposure_probability,
                   weights, rows_read, trajectory_log>>

AssignFamily ==
    /\ pc = "shuffle"
    /\ sh < 1
    /\ LET r == assign_family_ID_and_members(families)
       IN /\ persons_familyID' = r.persons_familyID
          /\ persons_contacts' = r.persons_contacts
    /\ p' = 0
    /\ pc' = "ext_for"
    /\ UNCHANGED <<stock, args, n_persons, state, sh, n_contacts, c, contacts_set, day,
                   i, HD, exposure_probability, weights, rows_read, trajectory_log>>

\* ------------------------------------------- assign_external_contacts
RECURSIVE external_entries(_, _)
\* the external (finite-frequency) entries of persons q, q+1, ... of a contact list
external_entries(contacts, q) ==
    IF q \notin DOMAIN contacts THEN 0
    ELSE Len(SelectSeq(contacts[q], LAMBDA e : ~e[2].inf))
         + external_entries(contacts, q + 1)

\* the external edges drawn so far: each is stored as two entries
edges_drawn == external_entries(persons_contacts, 0) \div 2

\* for p in range(n_persons): the draw of n_contacts = rd.randint(0,max_n_contacts),
\* among the draws that keep the run within MaxEdges external edges
ExtNextPerson ==
    /\ pc = "ext_for"
    /\ p < n_persons
    /\ n_contacts' \in 0..max_n_contacts
    /\ n_contacts' <= MaxEdges - edges_drawn
    /\ c' = 0
    /\ contacts_set' = {}
    /\ pc' = "ext_while"
    /\ UNCHANGED <<stock, args, n_persons, state, sh, persons_familyID, persons_contacts,
                   p, day, i, HD, exposure_probability, weights, rows_read,
                   trajectory_log>>

\* mutant of accepted: the test of the family alone, without contacts_set
accepted_other_family(q, p2) == persons_familyID[p2] /= persons_familyID[q]

\* persons_familyID[p2] != persons_familyID[p] and p2 not in contacts_set
accepted(q, p2) == persons_familyID[p2] /= persons_familyID[q] /\ p2 \notin contacts_set

\* mutant of add_contact: p2 does not reciprocate
add_contact_oneway(contacts, q, p2, frequency) ==
    [contacts EXCEPT ![q] = Append(@, <<p2, frequency>>)]

\* persons_contacts[p].append((p2,frequency)); persons_contacts[p2].append((p,frequency))
add_contact(contacts, q, p2, frequency) ==
    LET first == [contacts EXCEPT ![q] = Append(@, <<p2, frequency>>)]
    IN [first EXCEPT ![p2] = Append(@, <<q, frequency>>)]

\* one pass of the while loop whose candidate is accepted
ExtAccept ==
    /\ pc = "ext_while"
    /\ c < n_contacts
    /\ \E p2 \in 0..(n_persons - 1) :
        /\ accepted(p, p2)
        /\ contacts_set' = contacts_set \cup {p2}
        /\ \E k \in 1..max_freq :
              persons_contacts' = add_contact(persons_contacts, p, p2, weekly(k))
    /\ c' = c + 1
    /\ UNCHANGED <<stock, pc, args, n_persons, state, sh, persons_familyID, p, n_contacts,
                   day, i, HD, exposure_probability, weights, rows_read,
                   trajectory_log>>

\* one pass of the while loop whose candidate is rejected: nothing changes
ExtReject ==
    /\ pc = "ext_while"
    /\ c < n_contacts
    /\ \E p2 \in 0..(n_persons - 1) : ~accepted(p, p2)
    /\ UNCHANGED vars

\* the while loop ends: the for loop's next person
ExtPersonDone ==
    /\ pc = "ext_while"
    /\ c >= n_contacts
    /\ p' = p + 1
    /\ pc' = "ext_for"
    /\ UNCHANGED <<stock, args, n_persons, state, sh, persons_familyID, persons_contacts,
                   n_contacts, c, contacts_set, day, i, HD, exposure_probability,
                   weights, rows_read, trajectory_log>>

\* np.savetxt(trajectory_log, state[0]) and the entry of the day loop
EmitRow0 ==
    /\ pc = "ext_for"
    /\ p >= n_persons
    /\ trajectory_log' = Append(trajectory_log, state[0])
    /\ day' = 1
    /\ pc' = "day_for"
    /\ UNCHANGED <<stock, args, n_persons, state, sh, persons_familyID, persons_contacts,
                   p, n_contacts, c, contacts_set, i, HD, exposure_probability,
                   weights, rows_read>>

\* ------------------------------------------------ simulate, the day loop
\* mutant of hospital_death_probability: the threshold itself is not overload
hospital_death_probability_strict(n_hospitalised) ==
    IF n_hospitalised <= NHS_OVERLOAD THEN base_HD ELSE 3 * base_HD

\* HD of lines 103-106
hospital_death_probability(n_hospitalised) ==
    IF n_hospitalised < NHS_OVERLOAD THEN base_HD ELSE 3 * base_HD

\* for day in range(1,n_days): n_hospitalised and HD of the day
DayBegin ==
    /\ pc = "day_for"
    /\ day < n_days
    /\ HD' = hospital_death_probability(count_status(state[day - 1], HOSPITALISED))
    /\ i' = 0
    /\ pc' = "person_for"
    /\ UNCHANGED <<stock, args, n_persons, state, sh, persons_familyID, persons_contacts,
                   p, n_contacts, c, contacts_set, day, exposure_probability,
                   weights, rows_read, trajectory_log>>

\* Everything a person step leaves alone besides the grid, i and its own locals
StepFrame ==
    UNCHANGED <<stock, pc, args, n_persons, sh, persons_familyID, persons_contacts, p,
                n_contacts, c, contacts_set, day, HD, trajectory_log>>

\* mutant of carry_forward: the terminal branch leaves the zero of np.zeros
carry_forward_dropped(status) == SUSCEPTIBLE

\* DEAD and RECOVERED are carried forward (lines 109-111)
carry_forward(status) == status

StepTerminal ==
    /\ pc = "person_for"
    /\ i < n_persons
    /\ state[day - 1][i] \in {DEAD, RECOVERED}
    /\ state' = [state EXCEPT ![day][i] = carry_forward(state[day - 1][i])]
    /\ rows_read' = {day - 1}
    /\ i' = i + 1
    /\ UNCHANGED <<exposure_probability, weights>>
    /\ StepFrame

\* min(1,sum(exposure_frequencies)) of person q from row d-1 (lines 116-118)
exposure_of(q, d) ==
    min_one(sum_freq(exposure_frequencies(state[d - 1], persons_contacts[q])))

\* the row the incubation lookback state[day-EI_time,i] addresses (line 120)
incubation_row(d) == d - EI_time

\* mutant of exposed_draw: the incubation draw whatever the lookback holds
exposed_draw_no_lookback(looked, ep) ==
    [population |-> <<INFECTED, SUSCEPTIBLE, EXPOSED>>,
     weights |-> <<EI_prob * Denom, (Denom - ep) * ES_prob, ep * ES_prob>>]

\* mutant of exposed_draw: the weights of EXPOSED and SUSCEPTIBLE exchanged
exposed_draw_swapped(looked, ep) ==
    IF looked /= EXPOSED
    THEN [population |-> <<EXPOSED, SUSCEPTIBLE>>,
          weights |-> <<Denom - ep, ep>>]
    ELSE [population |-> <<INFECTED, SUSCEPTIBLE, EXPOSED>>,
          weights |-> <<EI_prob * Denom, ep * ES_prob, (Denom - ep) * ES_prob>>]

\* the two draws of lines 120-128; looked is state[day-EI_time,i]
exposed_draw(looked, ep) ==
    IF looked /= EXPOSED
    THEN [population |-> <<EXPOSED, SUSCEPTIBLE>>,
          weights |-> <<ep, Denom - ep>>]
    ELSE [population |-> <<INFECTED, SUSCEPTIBLE, EXPOSED>>,
          weights |-> <<EI_prob * Denom, (Denom - ep) * ES_prob, ep * ES_prob>>]

StepSusceptibleExposed ==
    /\ pc = "person_for"
    /\ i < n_persons
    /\ state[day - 1][i] \in {EXPOSED, SUSCEPTIBLE}
    /\ in_bounds(incubation_row(day))
    /\ LET ep == exposure_of(i, day)
           r == row_index(incubation_row(day))
           dr == exposed_draw(state[r][i], ep)
       IN /\ exposure_probability' = ep
          /\ weights' = dr.weights
          /\ rows_read' = {day - 1, r}
          /\ \E s \in choices(dr.population, dr.weights) :
                state' = [state EXCEPT ![day][i] = s]
    /\ i' = i + 1
    /\ StepFrame

\* state[day-EI_time,i] with an index below -n_days: numpy raises IndexError
StepLookbackError ==
    /\ pc = "person_for"
    /\ i < n_persons
    /\ state[day - 1][i] \in {EXPOSED, SUSCEPTIBLE}
    /\ ~in_bounds(incubation_row(day))
    /\ exposure_probability' = exposure_of(i, day)
    /\ rows_read' = {day - 1}
    /\ pc' = "IndexError"
    /\ UNCHANGED <<stock, args, n_persons, state, sh, persons_familyID, persons_contacts,
                   p, n_contacts, c, contacts_set, day, i, HD, weights,
                   trajectory_log>>

\* mutant of eligible: the test of the day alone, without the status lookback
eligible_day_only(d, q, min_time, status) == d >= min_time

\* day >= min_time and state[day-min_time,q] == status (lines 132, 144, 150)
eligible(d, q, min_time, status) ==
    d >= min_time /\ state[row_index(d - min_time)][q] = status

\* the rows a guarded lookback reads: none when day < min_time (short circuit)
lookback_rows(d, min_time) == IF d >= min_time THEN {row_index(d - min_time)} ELSE {}

\* mutant of infected_draw: DEAD in the place of HOSPITALISED
infected_draw_dead(d, q) ==
    LET IR_prob == IF eligible(d, q, min_IR_time, INFECTED) THEN IR ELSE 0
    IN [population |-> <<RECOVERED, DEAD, INFECTED>>,
        weights |-> <<IR_prob, IH, Denom - (IR_prob + IH)>>]

\* lines 132-139
infected_draw(d, q) ==
    LET IR_prob == IF eligible(d, q, min_IR_time, INFECTED) THEN IR ELSE 0
        IH_prob == IH
        II_prob == Denom - (IR_prob + IH_prob)
    IN [population |-> <<RECOVERED, HOSPITALISED, INFECTED>>,
        weights |-> <<IR_prob, IH_prob, II_prob>>]

StepInfected ==
    /\ pc = "person_for"
    /\ i < n_persons
    /\ state[day - 1][i] = INFECTED
    /\ LET dr == infected_draw(day, i)
       IN /\ weights' = dr.weights
          /\ \E s \in choices(dr.population, dr.weights) :
                state' = [state EXCEPT ![day][i] = s]
    /\ rows_read' = {day - 1} \cup lookback_rows(day, min_IR_time)
    /\ i' = i + 1
    /\ UNCHANGED exposure_probability
    /\ StepFrame

\* lines 144-155; hd is the day's HD
hospitalised_draw(d, q, hd) ==
    LET HR_prob == IF eligible(d, q, min_HR_time, HOSPITALISED) THEN HR ELSE 0
        HD_prob == IF eligible(d, q, min_HD_time, HOSPITALISED) THEN hd ELSE 0
        HH_prob == Denom - (HR_prob + HD_prob)
    IN [population |-> <<HOSPITALISED, RECOVERED, DEAD>>,
        weights |-> <<HH_prob, HR_prob, HD_prob>>]

StepHospitalised ==
    /\ pc = "person_for"
    /\ i < n_persons
    /\ state[day - 1][i] = HOSPITALISED
    /\ LET dr == hospitalised_draw(day, i, HD)
       IN /\ weights' = dr.weights
          /\ \E s \in choices(dr.population, dr.weights) :
                state' = [state EXCEPT ![day][i] = s]
    /\ rows_read' = {day - 1} \cup lookback_rows(day, min_HR_time)
                              \cup lookback_rows(day, min_HD_time)
    /\ i' = i + 1
    /\ UNCHANGED exposure_probability
    /\ StepFrame

\* mutant of EmitRow: the row of the day before is saved
EmitRow_previous ==
    /\ pc = "person_for"
    /\ i >= n_persons
    /\ trajectory_log' = Append(trajectory_log, state[day - 1])
    /\ day' = day + 1
    /\ pc' = "day_for"
    /\ UNCHANGED <<stock, args, n_persons, state, sh, persons_familyID, persons_contacts,
                   p, n_contacts, c, contacts_set, i, HD, exposure_probability,
                   weights, rows_read>>

\* np.savetxt(trajectory_log, state[day]) and the next day (line 157)
EmitRow ==
    /\ pc = "person_for"
    /\ i >= n_persons
    /\ trajectory_log' = Append(trajectory_log, state[day])
    /\ day' = day + 1
    /\ pc' = "day_for"
    /\ UNCHANGED <<stock, args, n_persons, state, sh, persons_familyID, persons_contacts,
                   p, n_contacts, c, contacts_set, i, HD, exposure_probability,
                   weights, rows_read>>

\* return state (line 162)
Return ==
    /\ pc = "day_for"
    /\ day >= n_days
    /\ pc' = "done"
    /\ UNCHANGED <<stock, args, n_persons, state, sh, persons_familyID, persons_contacts,
                   p, n_contacts, c, contacts_set, day, i, HD, exposure_probability,
                   weights, rows_read, trajectory_log>>

\* mutant of count_stock: state >= person_status in the place of ==
count_stock_at_least(grid, person_status) ==
    [d \in DOMAIN grid |->
        Cardinality({q \in DOMAIN grid[d] : grid[d][q] >= person_status})]

\* np.sum(state==person_status,1): one count per day
count_stock(grid, person_status) ==
    [d \in DOMAIN grid |-> count_status(grid[d], person_status)]

\* the six count_stock calls of the script on the returned grid (lines 250-255)
CountStocks ==
    /\ pc = "done"
    /\ stock' = [s \in Status |-> count_stock(state, s)]
    /\ pc' = "aggregated"
    /\ UNCHANGED <<args, n_persons, state, sh, persons_familyID, persons_contacts,
                   p, n_contacts, c, contacts_set, day, i, HD, exposure_probability,
                   weights, rows_read, trajectory_log>>

\* ------------------------------------------------ population runs
\* simulate up to the household assignment (lines 68-78), for every list of
\* family counts, zeros and trailing zeros included
PopulationLists ==
    UNION {[1..len -> 0..MaxFamilies] : len \in 1..MaxPersons}

InitPopulation ==
    /\ pc = "alloc"
    /\ NHS_OVERLOAD = 2000
    /\ families \in PopulationLists
    /\ n_days = 1
    /\ max_n_contacts = 0
    /\ max_freq = 1
    /\ n_init_exposed \in 0..1
    /\ n_persons = 0
    /\ state = <<>>
    /\ sh = 0
    /\ persons_familyID = <<>>
    /\ persons_contacts = <<>>
    /\ p = 0 /\ n_contacts = 0 /\ c = 0 /\ contacts_set = {}
    /\ day = 0 /\ i = 0 /\ HD = 0
    /\ exposure_probability = -1
    /\ weights = <<>>
    /\ rows_read = {}
    /\ trajectory_log = <<>>
    /\ stock = <<>>

NextPopulation ==
    \/ AllocAndExpose
    \/ ShuffleStep
    \/ AssignFamily

SpecPopulation == InitPopulation /\ [][NextPopulation]_vars

Next ==
    \/ AllocAndExpose
    \/ ShuffleStep
    \/ AssignFamily
    \/ ExtNextPerson
    \/ ExtAccept
    \/ ExtReject
    \/ ExtPersonDone
    \/ EmitRow0
    \/ DayBegin
    \/ StepTerminal
    \/ StepSusceptibleExposed
    \/ StepLookbackError
    \/ StepInfected
    \/ StepHospitalised
    \/ EmitRow
    \/ Return
    \/ CountStocks

Spec == Init /\ [][Next]_vars

\* ---------------------------------------------------------------- claims
Persons == 0..(n_persons - 1)
\* the days d >= 1 whose row the day loop has begun or finished
LaterDays == 1..(IF day >= n_days THEN n_days - 1 ELSE day)

\* Cell (d, q) of a row d >= 1 has been assigned by the day loop.
Written(d, q) ==
    \/ d < day
    \/ d = day /\ q < i /\ pc \in {"person_for", "IndexError"}

\* C1: for every day d >= 1 and person q, if the grid holds DEAD or RECOVERED
\* at (d-1, q) it holds the same status at (d, q); over consecutive days this
\* keeps the status on every later day.
TerminalStatesAreKept ==
    \A q \in Persons : \A d \in LaterDays :
        (Written(d, q) /\ state[d - 1][q] \in {DEAD, RECOVERED})
            => state[d][q] = state[d - 1][q]

\* C1 witness: a RECOVERED status of one day was carried to the next day.
RecoveredCarried ==
    \E q \in Persons : \E d \in LaterDays :
        Written(d, q) /\ state[d - 1][q] = RECOVERED

DeclaredEdges ==
    {<<SUSCEPTIBLE, EXPOSED>>, <<EXPOSED, SUSCEPTIBLE>>, <<EXPOSED, INFECTED>>,
     <<INFECTED, HOSPITALISED>>, <<INFECTED, RECOVERED>>,
     <<HOSPITALISED, RECOVERED>>, <<HOSPITALISED, DEAD>>}

\* C2 as stated: every change of status between consecutive days is a
\* declared edge.
OnlyDeclaredEdges ==
    \A q \in Persons : \A d \in LaterDays :
        Written(d, q) =>
            \/ state[d][q] = state[d - 1][q]
            \/ <<state[d - 1][q], state[d][q]>> \in DeclaredEdges

\* C2 amended: every change of status between consecutive days is a declared
\* edge or SUSCEPTIBLE->INFECTED, and SUSCEPTIBLE->INFECTED happens on day d
\* only when d >= EI_time and the person was EXPOSED on day d-EI_time.
DeclaredEdgesOrLateInfection ==
    \A q \in Persons : \A d \in LaterDays :
        Written(d, q) =>
            \/ state[d][q] = state[d - 1][q]
            \/ <<state[d - 1][q], state[d][q]>> \in DeclaredEdges
            \/ /\ state[d - 1][q] = SUSCEPTIBLE
               /\ state[d][q] = INFECTED
               /\ d >= EI_time
               /\ state[d - EI_time][q] = EXPOSED

\* C2 witness: a person SUSCEPTIBLE on one day is INFECTED on the next.
SusceptibleBecameInfected ==
    \E q \in Persons : \E d \in LaterDays :
        Written(d, q) /\ state[d - 1][q] = SUSCEPTIBLE /\ state[d][q] = INFECTED

\* C3: HOSPITALISED on day d only after INFECTED or HOSPITALISED on day d-1,
\* DEAD on day d only after HOSPITALISED or DEAD on day d-1, and nobody is
\* HOSPITALISED or DEAD on day 0.
HospitalAndDeathEntries ==
    /\ \A q \in Persons : \A d \in LaterDays :
          Written(d, q) =>
              /\ state[d][q] = HOSPITALISED
                    => state[d - 1][q] \in {INFECTED, HOSPITALISED}
              /\ state[d][q] = DEAD => state[d - 1][q] \in {HOSPITALISED, DEAD}
    /\ pc /= "alloc" => \A q \in Persons : state[0][q] \notin {HOSPITALISED, DEAD}

\* C3 witness: a person died the day after a HOSPITALISED day that followed
\* an INFECTED day.
DiedFromHospital ==
    \E q \in Persons : \E d \in LaterDays :
        /\ d >= 2
        /\ Written(d, q)
        /\ state[d][q] = DEAD
        /\ state[d - 1][q] = HOSPITALISED
        /\ \E e \in 1..(d - 1) :
              state[e][q] = HOSPITALISED /\ state[e - 1][q] = INFECTED

\* C4: with 0 <= n_init_exposed <= N, row 0 holds exactly n_init_exposed
\* EXPOSED persons and everyone else SUSCEPTIBLE, during and after the shuffle.
InitialRowCounts ==
    (pc /= "alloc" /\ n_init_exposed <= n_persons) =>
        /\ count_status(state[0], EXPOSED) = n_init_exposed
        /\ count_status(state[0], SUSCEPTIBLE) = n_persons - n_init_exposed

\* C4 witness: the shuffle is over and has moved the one EXPOSED person of
\* three from slot 0 to the last slot.
ShuffledInitialRow ==
    /\ pc = "ext_for"
    /\ n_persons = 3
    /\ n_init_exposed = 1
    /\ state[0][2] = EXPOSED

\* Some other member of q's family is INFECTED on day d.
HouseholdInfected(q, d) ==
    \E r \in Persons :
        r /= q /\ persons_familyID[r] = persons_familyID[q] /\ state[d][r] = INFECTED

\* The latest person step handled person i-1 of the current day.
StepDone == pc = "person_for" /\ i >= 1

\* C5: a person SUSCEPTIBLE or EXPOSED on day d-1 with an INFECTED household
\* co-member on day d-1 has exposure pressure exactly 1, the weight of
\* SUSCEPTIBLE in their draw is 0, and they are not SUSCEPTIBLE on day d.
HouseholdSaturation ==
    /\ \A q \in Persons : \A d \in LaterDays :
          (/\ Written(d, q)
           /\ state[d - 1][q] \in {SUSCEPTIBLE, EXPOSED}
           /\ HouseholdInfected(q, d - 1))
              => exposure_of(q, d) = Denom /\ state[d][q] /= SUSCEPTIBLE
    /\ (/\ StepDone
        /\ state[day - 1][i - 1] \in {SUSCEPTIBLE, EXPOSED}
        /\ HouseholdInfected(i - 1, day - 1))
           => exposure_probability = Denom /\ weights[2] = 0

\* C5 witness: the latest step drew EXPOSED for a person whose household
\* co-member was INFECTED the day before.
SaturatedStep ==
    /\ StepDone
    /\ state[day - 1][i - 1] \in {SUSCEPTIBLE, EXPOSED}
    /\ HouseholdInfected(i - 1, day - 1)
    /\ state[day][i - 1] = EXPOSED

\* the entries of list equal to entry
count_entries(list, entry) == Len(SelectSeq(list, LAMBDA e : e = entry))

\* C6: for all persons a, b and every frequency f, a's contact list holds as
\* many external entries (b, f) as b's list holds entries (a, f): checked from
\* every external entry (b, f) of every list, the side where a count is not 0.
ExternalReciprocity ==
    pc \notin {"alloc", "shuffle"} =>
        \A a \in Persons : \A n \in DOMAIN persons_contacts[a] :
            LET b == persons_contacts[a][n][1]
                f == persons_contacts[a][n][2]
            IN ~f.inf =>
                  count_entries(persons_contacts[a], <<b, f>>)
                      = count_entries(persons_contacts[b], <<a, f>>)

\* C6 witness: the contact graph is complete and two persons are joined by
\* two external edges of different frequencies.
TwoFrequenciesBetweenTwo ==
    /\ pc = "day_for"
    /\ \E a \in Persons : \E b \in Persons :
          /\ count_entries(persons_contacts[a], <<b, weekly(1)>>) = 1
          /\ count_entries(persons_contacts[a], <<b, weekly(2)>>) = 1

ReadsOnlyEarlierRows ==
    StepDone => rows_read \subseteq 0..(day - 1)

\* C9 as stated: simulate never stops with an error once row 0 is emitted.
NoErrorAfterRowEmitted ==
    ~(pc = "IndexError" /\ Len(trajectory_log) >= 1)

\* C10: one family of size 1, n_init_exposed = 1, n_days = 10, no external
\* contacts: the person is EXPOSED on day 0, INFECTED or SUSCEPTIBLE on day
\* EI_time, not EXPOSED on any day from EI_time on, and keeps RECOVERED or DEAD.
SinglePersonScenario ==
    (/\ families = <<1>> /\ n_init_exposed = 1 /\ n_days = 10
     /\ max_n_contacts = 0 /\ pc /= "alloc") =>
        /\ state[0][0] = EXPOSED
        /\ Written(EI_time, 0) => state[EI_time][0] \in {INFECTED, SUSCEPTIBLE}
        /\ \A d \in LaterDays :
              (d >= EI_time /\ Written(d, 0)) => state[d][0] /= EXPOSED
        /\ \A d \in LaterDays :
              (Written(d, 0) /\ state[d - 1][0] \in {RECOVERED, DEAD})
                  => state[d][0] = state[d - 1][0]

\* C10 witness: the scenario ran to its end with the person INFECTED on day
\* EI_time.
SinglePersonInfected ==
    /\ families = <<1>> /\ n_init_exposed = 1 /\ n_days = 10 /\ max_n_contacts = 0
    /\ pc = "done"
    /\ state[EI_time][0] = INFECTED

\* C11: the six count_stock results of a returned grid add up to the
\* population size on every day, and the calls leave the grid as it was.
AggregationPartition ==
    [][(pc = "done" /\ pc' = "aggregated") =>
          /\ state' = state
          /\ \A d \in DOMAIN state :
                stock'[SUSCEPTIBLE][d] + stock'[EXPOSED][d] + stock'[INFECTED][d]
                  + stock'[HOSPITALISED][d] + stock'[RECOVERED][d] + stock'[DEAD][d]
                    = n_persons]_vars

\* C11 witness: the stocks of a grid of three persons were counted, with a
\* day on which the three hold three different statuses.
StocksCounted ==
    /\ pc = "aggregated"
    /\ n_persons = 3
    /\ \E d \in DOMAIN state :
          Cardinality({s \in Status : stock[s][d] = 1}) = 3

\* the (size, family, member) triples of a list of family counts
member_slots(fams) ==
    UNION {{<<k, n, m>> : n \in 1..fams[k], m \in 1..k} : k \in 1..Len(fams)}

\* the number of families of a list of family counts
RECURSIVE family_count(_, _)
family_count(fams, k) ==
    IF k > Len(fams) THEN 0 ELSE fams[k] + family_count(fams, k + 1)

\* C12: count_persons is the sum of (i+1)*families[i], for three counts
\* 1*f1 + 2*f2 + 3*f3; it is the number of columns of the grid and the number
\* of persons the household assignment creates (the last family is complete
\* and ends at the last person).
PersonCount ==
    pc /= "alloc" =>
        /\ n_persons = Cardinality(member_slots(families))
        /\ Len(families) = 3 =>
              n_persons = 1 * families[1] + 2 * families[2] + 3 * families[3]
        /\ \A d \in DOMAIN state : DOMAIN state[d] = 0..(n_persons - 1)
        /\ pc = "ext_for" =>
              /\ DOMAIN persons_familyID = 0..(n_persons - 1)
              /\ DOMAIN persons_contacts = 0..(n_persons - 1)
              /\ n_persons > 0 =>
                    /\ persons_familyID[n_persons - 1] = family_count(families, 1) - 1
                    /\ \E k \in 1..Len(families) :
                          /\ families[k] > 0
                          /\ \A m \in (k + 1)..Len(families) : families[m] = 0
                          /\ Cardinality({q \in 0..(n_persons - 1) :
                                persons_familyID[q] = persons_familyID[n_persons - 1]}) = k

\* C12 witness: the families [2, 1, 0] were assigned and hold 4 persons
FourPersonsCounted ==
    /\ pc = "ext_for"
    /\ families = <<2, 1, 0>>
    /\ n_persons = 4

\* C13: a run whose n_init_exposed exceeds the population size is rejected
\* before any day is simulated: no row is emitted and no day is computed.
OverExposedRejected ==
    n_init_exposed > count_persons(families) =>
        /\ trajectory_log = <<>>
        /\ pc \notin {"day_for", "person_for", "done", "aggregated"}

\* the status of person q changed from status a to status b on the written day d
Moved(d, q, a, b) == Written(d, q) /\ state[d - 1][q] = a /\ state[d][q] = b

\* person q held the status on each of the n days before day d
HeldFor(d, q, n, status) == d >= n /\ \A k \in 1..n : state[d - k][q] = status

\* C14: INFECTED -> RECOVERED happens on day d only after min_IR_time whole days
\* INFECTED, HOSPITALISED -> RECOVERED only after min_HR_time whole days
\* HOSPITALISED, HOSPITALISED -> DEAD only after min_HD_time whole days
\* HOSPITALISED; stated of the cell each step of the day loop has just written.
MinimumDurations ==
    StepDone =>
        LET d == day
            q == i - 1
        IN /\ Moved(d, q, INFECTED, RECOVERED) => HeldFor(d, q, min_IR_time, INFECTED)
           /\ Moved(d, q, HOSPITALISED, RECOVERED) =>
                 HeldFor(d, q, min_HR_time, HOSPITALISED)
           /\ Moved(d, q, HOSPITALISED, DEAD) => HeldFor(d, q, min_HD_time, HOSPITALISED)

\* C14 witness: a person left hospital RECOVERED
RecoveredFromHospital ==
    \E d \in LaterDays : \E q \in Persons : Moved(d, q, HOSPITALISED, RECOVERED)

\* C15: a person not INFECTED on day d-1 is INFECTED on day d only if
\* d >= EI_time and the person was EXPOSED on day d-EI_time; so nobody is
\* INFECTED on a day before EI_time, whatever n_days is.
IncubationRule ==
    \A d \in LaterDays : \A q \in Persons :
        (Written(d, q) /\ state[d][q] = INFECTED) =>
            /\ d >= EI_time
            /\ state[d - 1][q] /= INFECTED => state[d - EI_time][q] = EXPOSED

\* C16: assign_external_contacts terminates under fair partner draws: as long
\* as the while loop of a person is short of its drawn count, some person is
\* a candidate the loop accepts, so a fair sequence of draws adds a partner.
PartnerAvailable ==
    (pc = "ext_while" /\ c < n_contacts) =>
        \E p2 \in Persons : accepted(p, p2)

\* the external entries of person a that name person b
external_with(a, b) ==
    Len(SelectSeq(persons_contacts[a], LAMBDA e : e[1] = b /\ ~e[2].inf))

\* C17: while and after the external contacts are assigned, every external
\* entry joins persons of different families, a person names one partner at
\* most twice, and during the loop of person p the c edges p has initiated go
\* to c pairwise distinct partners (contacts_set), c <= n_contacts <=
\* max_n_contacts, each to a person of another family and each stored once.
AcceptanceRule ==
    pc \in {"ext_for", "ext_while"} =>
        /\ \A a \in Persons : \A b \in Persons :
              /\ external_with(a, b) <= 2
              /\ external_with(a, b) > 0 => persons_familyID[a] /= persons_familyID[b]
        /\ pc = "ext_while" =>
              /\ c = Cardinality(contacts_set)
              /\ c <= n_contacts
              /\ n_contacts <= max_n_contacts
              /\ \A b \in contacts_set :
                    /\ persons_familyID[b] /= persons_familyID[p]
                    /\ external_with(p, b) >= 1
              /\ \A b \in Persons :
                    b > p => external_with(p, b) = (IF b \in contacts_set THEN 1 ELSE 0)

\* C17 witness: all persons have drawn their partners and one person names
\* the same partner twice, once initiated and once received
DuplicateEdgeKept ==
    /\ pc = "ext_for"
    /\ p = n_persons
    /\ \E a \in Persons : \E b \in Persons : external_with(a, b) = 2

\* the members of the family with the given ID
members_of(id) == {q \in Persons : persons_familyID[q] = id}

\* the number of families of the sizes below k
RECURSIVE families_before(_, _)
families_before(fams, k) ==
    IF k <= 1 THEN 0 ELSE fams[k - 1] + families_before(fams, k - 1)

\* the size of the family that gets the given ID: sizes are served in
\* increasing order, families[k-1] families of size k
size_of(fams, id) ==
    CHOOSE k \in 1..Len(fams) :
        families_before(fams, k) <= id /\ id < families_before(fams, k) + fams[k]

\* C18: after the household assignment the family IDs are 0, 1, 2, ... in the
\* order of the persons, every family created for the index i has i+1
\* members, and the contact list of a person holds exactly one entry of
\* infinite frequency for every other member of the family and nothing else.
HouseholdStructure ==
    pc = "ext_for" =>
        /\ {persons_familyID[q] : q \in Persons} = 0..(family_count(families, 1) - 1)
        /\ \A q \in Persons :
              IF q = 0 THEN persons_familyID[q] = 0
              ELSE persons_familyID[q] \in
                      {persons_familyID[q - 1], persons_familyID[q - 1] + 1}
        /\ \A id \in 0..(family_count(families, 1) - 1) :
              Cardinality(members_of(id)) = size_of(families, id)
        /\ \A q \in Persons :
              LET others == members_of(persons_familyID[q]) \ {q}
                  list == persons_contacts[q]
              IN /\ Len(list) = Cardinality(others)
                 /\ {list[k] : k \in DOMAIN list} = {<<r, np_inf>> : r \in others}

\* C18 witness: one family of each of the sizes 1, 2 and 3 was assigned
ThreeFamiliesAssigned ==
    /\ pc = "ext_for"
    /\ families = <<1, 1, 1>>
    /\ members_of(2) = {3, 4, 5}
    /\ Len(persons_contacts[4]) = 2

\* no contact of person q is INFECTED in row d
NoInfectedContact(q, d) ==
    \A k \in DOMAIN persons_contacts[q] : state[d][persons_contacts[q][k][1]] /= INFECTED

\* C19: a person SUSCEPTIBLE or EXPOSED on day d-1 none of whose contacts is
\* INFECTED on day d-1 has exposure pressure 0 and is not EXPOSED on day d;
\* a day that follows a day without INFECTED persons has no EXPOSED person.
\* Stated of the cell each step of the day loop has just written.
NoExposureWithoutInfection ==
    StepDone =>
        /\ (/\ state[day - 1][i - 1] \in {SUSCEPTIBLE, EXPOSED}
            /\ NoInfectedContact(i - 1, day - 1)) =>
                /\ exposure_probability = 0
                /\ state[day][i - 1] /= EXPOSED
        /\ (\A r \in Persons : state[day - 1][r] /= INFECTED) =>
                state[day][i - 1] /= EXPOSED

\* C19 witness: a SUSCEPTIBLE person with contacts, none of them INFECTED,
\* stayed SUSCEPTIBLE under pressure 0 on a day another person was INFECTED
SparedWithoutInfectedContact ==
    /\ StepDone
    /\ state[day - 1][i - 1] = SUSCEPTIBLE
    /\ persons_contacts[i - 1] /= <<>>
    /\ NoInfectedContact(i - 1, day - 1)
    /\ \E r \in Persons : state[day - 1][r] = INFECTED
    /\ exposure_probability = 0
    /\ state[day][i - 1] = SUSCEPTIBLE

\* what a step taken inside the day loop leaves alone and what it may add
DayLoopStep ==
    pc \in {"day_for", "person_for"} =>
        /\ persons_familyID' = persons_familyID
        /\ persons_contacts' = persons_contacts
        /\ DOMAIN state' = DOMAIN state
        /\ \A d \in DOMAIN state : \A q \in Persons :
              (d /= day \/ q /= i \/ pc /= "person_for") => state'[d][q] = state[d][q]
        /\ \A k \in DOMAIN trajectory_log : trajectory_log'[k] = trajectory_log[k]
        /\ Len(trajectory_log') \in {Len(trajectory_log), Len(trajectory_log) + 1}
        /\ Len(trajectory_log') = Len(trajectory_log) + 1 =>
              /\ pc = "person_for"
              /\ i >= n_persons
              /\ Len(trajectory_log) = day
              /\ \A k \in DOMAIN trajectory_log' : trajectory_log'[k] = state'[k - 1]

\* C20: a step of the day loop changes neither the family IDs nor the contact
\* lists, writes no cell but cell i of the row of the current day, and leaves
\* the rows already in the log as they are; a row is added to the log only
\* when all the cells of the current day are written, it is that day's row,
\* and the log then holds the rows 0..day in the order of the days.
DayLoopFrame == [][DayLoopStep]_vars

\* C20 witness: a run over a population with an external edge returned, its
\* log holds every day, and the rows of day 0 and day 1 differ
AllRowsEmitted ==
    /\ pc = "done"
    /\ n_days >= 3
    /\ Len(trajectory_log) = n_days
    /\ edges_drawn >= 1
    /\ state[1] /= state[0]

====
